---- MODULE Spec2Model ----
(***************************************************************************)
(* Model of exrtotiff's convert(): channel-name resolution, output-channel *)
(* ordering, TIFF metadata and the interleave/transform write pass.        *)
(*                                                                         *)
(* Channel names are sequences of one-character strings, so that the       *)
(* suffix extraction (find_last_of / substr) is computed, not assumed.     *)
(* Float samples are fixed-point integers counting eighths (1.0 = 8); all  *)
(* source samples are even, so value/2 is exact as it is for floats.       *)
(***************************************************************************)
EXTENDS Integers, Sequences, FiniteSets, TLC

\* ---------------------------------------------------------------- bounds
MaxChannels == 3
MaxWidth == 2
MaxHeight == 2

\* ------------------------------------------------------- sample encoding
ToSample(num, den) == (num * 8) \div den
One == ToSample(1, 1)
Half == ToSample(1, 2)

\* --------------------------------------------------------- channel names
\* Raw channel names an EXR header may declare.
Names ==
    { <<"A">>, <<"B">>, <<"G">>, <<"R">>, <<"Y">>, <<"Z">>,
      <<"N", "X">>, <<"N", "Y">>,
      <<"D", "e", "p", "t", "h">>,
      <<"a", ".", "R">>, <<"b", ".", "R">>,
      <<"a", ".", "b", ".", "N", "X">>,
      <<"a", ".", "D", "e", "p", "t", "h">> }

\* Character codes, as compared by strcmp in the channel list's ordering.
CharCode ==
    ("." :> 46) @@ ("A" :> 65) @@ ("B" :> 66) @@ ("D" :> 68) @@ ("G" :> 71) @@
    ("N" :> 78) @@ ("R" :> 82) @@ ("X" :> 88) @@ ("Y" :> 89) @@ ("Z" :> 90) @@
    ("a" :> 97) @@ ("b" :> 98) @@ ("e" :> 101) @@ ("h" :> 104) @@
    ("p" :> 112) @@ ("t" :> 116)

RECURSIVE NameLess(_, _)
NameLess(s, t) ==
    IF t = <<>> THEN FALSE
    ELSE IF s = <<>> THEN TRUE
    ELSE IF CharCode[Head(s)] # CharCode[Head(t)]
         THEN CharCode[Head(s)] < CharCode[Head(t)]
         ELSE NameLess(Tail(s), Tail(t))

\* The channel list iterates its (distinct) names in ascending order.
RECURSIVE ChannelListOrder(_)
ChannelListOrder(S) ==
    IF S = {} THEN <<>>
    ELSE LET m == CHOOSE n \in S : \A o \in S \ {n} : NameLess(n, o)
         IN  <<m>> \o ChannelListOrder(S \ {m})

Headers ==
    { ChannelListOrder(S) : S \in { T \in SUBSET Names : Cardinality(T) <= MaxChannels } }

\* Fill seeds: the decoded file content is one of a few sample patterns.
Fills == {0, 4}

\* Sample the decoder stores for the i-th header channel at linear offset o.
DecodedSample(fill, w, h, i, o) == 2 * (((fill + (w * h) * i + o) % 9) - 4)

\* ---------------------------------------------------------------- state
VARIABLES
    header,           \* file.header().channels(), in iteration order
    width, height,    \* data window size
    content,          \* which sample pattern the file holds
    pc,               \* position in convert()/main()
    idx,              \* position of the resolver loop in header (1-based)
    channel_data,     \* raw name -> plane (offset -> sample)
    frameBuffer,      \* raw names with a slice inserted
    convert_normals,
    channel_names,    \* output channel -> raw name
    output_channels,  \* sequence of planes, each identified by its raw name
    channels,         \* int channels
    tif,              \* "null" | "open" | "closed"
    fields,           \* TIFF tags set so far (tag -> value)
    row,              \* the row buffer (index -> sample)
    y,
    io,               \* calls made to the decoder and the encoder, in order
    exit_status       \* -1 while running

vars == <<header, width, height, content, pc, idx, channel_data, frameBuffer,
          convert_normals, channel_names, output_channels, channels, tif,
          fields, row, y, io, exit_status>>

EmptyMap == [k \in {} |-> <<>>]

IoCall(op, line, ok, data) == [op |-> op, y |-> line, ok |-> ok, row |-> data]

Init ==
    /\ header \in Headers
    /\ width \in 1..MaxWidth
    /\ height \in 1..MaxHeight
    /\ content \in Fills
    /\ pc = "alloc"
    /\ idx = 1
    /\ channel_data = EmptyMap
    /\ frameBuffer = {}
    /\ convert_normals = FALSE
    /\ channel_names = EmptyMap
    /\ output_channels = <<>>
    /\ channels = 0
    /\ tif = "null"
    /\ fields = EmptyMap
    /\ row = EmptyMap
    /\ y = 0
    /\ io = <<>>
    /\ exit_status = -1

\* ------------------------------------------------------- buffer allocation
HeaderNames == { header[i] : i \in 1..Len(header) }

AllocBuffers ==
    /\ pc = "alloc"
    /\ channel_data' = [n \in HeaderNames |-> [o \in 0..(height * width - 1) |-> One]]
    /\ frameBuffer' = HeaderNames
    /\ pc' = IF Len(header) = 0 THEN "build" ELSE "resolve"
    /\ UNCHANGED <<header, width, height, content, idx, convert_normals,
                   channel_names, output_channels, channels, tif, fields,
                   row, y, io, exit_status>>

\* ------------------------------------------------------ channel resolver
channel_map ==
    (<<"Z">> :> "Y") @@ (<<"Y">> :> "Y") @@
    (<<"R">> :> "R") @@ (<<"G">> :> "G") @@ (<<"B">> :> "B") @@
    (<<"N", "X">> :> "R") @@ (<<"N", "Y">> :> "G") @@ (<<"N", "Z">> :> "B") @@
    (<<"A">> :> "A")

\* string::find_last_of: the last 1-based position of ch, 0 for npos.
FindLastOf(s, ch) ==
    LET hits == { i \in 1..Len(s) : s[i] = ch }
    IN  IF hits = {} THEN 0 ELSE CHOOSE i \in hits : \A j \in hits : j <= i

SemanticId(name) ==
    LET dot == FindLastOf(name, ".")
    IN  IF dot # 0 THEN SubSeq(name, dot + 1, Len(name)) ELSE name

IsNormalsAnyAxis(id) == id \in { <<"N", "X">>, <<"N", "Y">>, <<"N", "Z">> }

IsNormalsChannel(id) == id = <<"N", "X">>

KnownAlways(id) == TRUE

Known(id) == id \in DOMAIN channel_map

\* map::operator[]: a missing key yields the empty string.
NewName(id) == IF id \in DOMAIN channel_map THEN channel_map[id] ELSE ""

ConflictNever(new_name, names) == FALSE

Conflict(new_name, names) == new_name \in DOMAIN names

Assign(names, key, raw) ==
    [k \in DOMAIN names \cup {key} |-> IF k = key THEN raw ELSE names[k]]

BindLumaNoBlue(names, raw) == Assign(Assign(names, "R", raw), "G", raw)

BindLuma(names, raw) == Assign(Assign(Assign(names, "R", raw), "G", raw), "B", raw)

BindChannel(names, new_name, raw) == Assign(names, new_name, raw)

CurrentId == SemanticId(header[idx])

InResolver == pc = "resolve" /\ idx <= Len(header)

NextChannel ==
    /\ idx' = idx + 1
    /\ pc' = IF idx + 1 > Len(header) THEN "build" ELSE "resolve"

ResolverFrame ==
    UNCHANGED <<header, width, height, content, channel_data, frameBuffer,
                output_channels, channels, tif, fields, row, y, io>>

ResolveUnknown ==
    /\ InResolver
    /\ convert_normals' = (convert_normals \/ IsNormalsChannel(CurrentId))
    /\ ~Known(CurrentId)
    /\ NextChannel
    /\ UNCHANGED <<channel_names, exit_status>>
    /\ ResolverFrame

ResolveConflict ==
    /\ InResolver
    /\ convert_normals' = (convert_normals \/ IsNormalsChannel(CurrentId))
    /\ Known(CurrentId)
    /\ Conflict(NewName(CurrentId), channel_names)
    /\ pc' = "exit"
    /\ exit_status' = 1
    /\ UNCHANGED <<channel_names, idx>>
    /\ ResolverFrame

ResolveLuma ==
    /\ InResolver
    /\ convert_normals' = (convert_normals \/ IsNormalsChannel(CurrentId))
    /\ Known(CurrentId)
    /\ ~Conflict(NewName(CurrentId), channel_names)
    /\ NewName(CurrentId) = "Y"
    /\ channel_names' = BindLuma(channel_names, header[idx])
    /\ NextChannel
    /\ UNCHANGED exit_status
    /\ ResolverFrame

ResolveBind ==
    /\ InResolver
    /\ convert_normals' = (convert_normals \/ IsNormalsChannel(CurrentId))
    /\ Known(CurrentId)
    /\ ~Conflict(NewName(CurrentId), channel_names)
    /\ NewName(CurrentId) # "Y"
    /\ channel_names' = BindChannel(channel_names, NewName(CurrentId), header[idx])
    /\ NextChannel
    /\ UNCHANGED exit_status
    /\ ResolverFrame

\* ------------------------------------------------------ output-channel list
OutputOrderAlphaFirst == <<"A", "R", "G", "B">>

OutputOrder == <<"R", "G", "B", "A">>

RECURSIVE CollectOutputs(_, _)
CollectOutputs(order, names) ==
    IF order = <<>> THEN <<>>
    ELSE (IF Head(order) \in DOMAIN names THEN <<names[Head(order)]>> ELSE <<>>)
         \o CollectOutputs(Tail(order), names)

BuildOutputChannels ==
    /\ pc = "build"
    /\ output_channels' = CollectOutputs(OutputOrder, channel_names)
    /\ pc' = "read"
    /\ UNCHANGED <<header, width, height, content, idx, channel_data, frameBuffer,
                   convert_normals, channel_names, channels, tif, fields, row,
                   y, io, exit_status>>

\* ------------------------------------------------------------------ decode
IndexOf(name) == CHOOSE i \in 1..Len(header) : header[i] = name

ReadPixels ==
    /\ pc = "read"
    /\ channel_data' =
          [n \in DOMAIN channel_data |->
              IF n \in frameBuffer
              THEN [o \in 0..(height * width - 1) |->
                        DecodedSample(content, width, height, IndexOf(n), o)]
              ELSE channel_data[n]]
    /\ io' = Append(io, IoCall("readPixels", -1, TRUE, <<>>))
    /\ pc' = "open"
    /\ UNCHANGED <<header, width, height, content, idx, frameBuffer,
                   convert_normals, channel_names, output_channels, channels,
                   tif, fields, row, y, exit_status>>

\* readPixels throws; main catches and returns 0.
ReadPixelsThrows ==
    /\ pc = "read"
    /\ io' = Append(io, IoCall("readPixels", -1, FALSE, <<>>))
    /\ pc' = "exit"
    /\ exit_status' = 0
    /\ UNCHANGED <<header, width, height, content, idx, channel_data, frameBuffer,
                   convert_normals, channel_names, output_channels, channels,
                   tif, fields, row, y>>

\* ------------------------------------------------------------------ encode
OpenOutput ==
    /\ pc = "open"
    /\ tif' = "open"
    /\ io' = Append(io, IoCall("TIFFOpen", -1, TRUE, <<>>))
    /\ pc' = "fields"
    /\ UNCHANGED <<header, width, height, content, idx, channel_data, frameBuffer,
                   convert_normals, channel_names, output_channels, channels,
                   fields, row, y, exit_status>>

\* TIFFOpen returns NULL: runtime_error, caught by main, which returns 0.
OpenOutputFails ==
    /\ pc = "open"
    /\ io' = Append(io, IoCall("TIFFOpen", -1, FALSE, <<>>))
    /\ pc' = "exit"
    /\ exit_status' = 0
    /\ UNCHANGED <<header, width, height, content, idx, channel_data, frameBuffer,
                   convert_normals, channel_names, output_channels, channels,
                   tif, fields, row, y>>

ToInt(b) == IF b THEN 1 ELSE 0

PhotometricIgnoringAlpha(n, has_alpha) ==
    IF n = 3 THEN "PHOTOMETRIC_RGB" ELSE "PHOTOMETRIC_MINISBLACK"

Photometric(n, has_alpha) ==
    IF n - ToInt(has_alpha) = 3 THEN "PHOTOMETRIC_RGB" ELSE "PHOTOMETRIC_MINISBLACK"

SetFields ==
    /\ pc = "fields"
    /\ LET n == Len(output_channels)
           has_alpha == "A" \in DOMAIN channel_names
           base ==
               ("IMAGEWIDTH" :> <<width>>) @@ ("IMAGELENGTH" :> <<height>>) @@
               ("SAMPLEFORMAT" :> <<"SAMPLEFORMAT_IEEEFP">>) @@
               ("SAMPLESPERPIXEL" :> <<n>>) @@ ("BITSPERSAMPLE" :> <<32>>) @@
               ("ORIENTATION" :> <<"ORIENTATION_TOPLEFT">>) @@
               ("PLANARCONFIG" :> <<"PLANARCONFIG_CONTIG">>) @@
               ("ROWSPERSTRIP" :> <<1>>) @@
               ("PHOTOMETRIC" :> <<Photometric(n, has_alpha)>>) @@
               ("COMPRESSION" :> <<"COMPRESSION_LZW">>)
       IN  /\ channels' = n
           /\ fields' = IF has_alpha
                        THEN base @@ ("EXTRASAMPLES" :> <<1, "EXTRASAMPLE_ASSOCALPHA">>)
                        ELSE base
           /\ io' = Append(io, IoCall("TIFFSetField", -1, TRUE, <<>>))
           /\ row' = [k \in 0..(width * n - 1) |-> One]
    /\ y' = 0
    /\ pc' = IF 0 < height THEN "write" ELSE "close"
    /\ UNCHANGED <<header, width, height, content, idx, channel_data, frameBuffer,
                   convert_normals, channel_names, output_channels, tif,
                   exit_status>>

\* --------------------------------------------------- interleave / transform
RemapNoOffset(value) == value \div 2

Remap(value) == (value \div 2) + Half

Transform(value) == IF convert_normals THEN Remap(value) ELSE value

RowIndexNoStride(x, c, n) == x + c

RowIndex(x, c, n) == x * n + c

PlaneOffset(x, line, w) == line * w + x

RECURSIVE FillChannels(_, _, _, _)
FillChannels(buf, line, x, c) ==
    IF ~(c < Len(output_channels)) THEN buf
    ELSE LET value == channel_data[output_channels[c + 1]][PlaneOffset(x, line, width)]
         IN  FillChannels([buf EXCEPT ![RowIndex(x, c, channels)] = Transform(value)],
                          line, x, c + 1)

RECURSIVE FillRow(_, _, _)
FillRow(buf, line, x) ==
    IF ~(x < width) THEN buf
    ELSE FillRow(FillChannels(buf, line, x, 0), line, x + 1)

LoopBreaksNever(result) == FALSE

LoopBreaks(result) == result < 0

WriteScanline ==
    /\ pc = "write"
    /\ y < height
    /\ row' = FillRow(row, y, 0)
    /\ \E result \in {-1, 1} :
          /\ io' = Append(io, IoCall("TIFFWriteScanline", y, result >= 0, row'))
          /\ IF LoopBreaks(result)
             THEN /\ pc' = "close"
                  /\ y' = y
             ELSE /\ y' = y + 1
                  /\ pc' = IF y + 1 < height THEN "write" ELSE "close"
    /\ UNCHANGED <<header, width, height, content, idx, channel_data, frameBuffer,
                   convert_normals, channel_names, output_channels, channels,
                   tif, fields, exit_status>>

CloseOutput ==
    /\ pc = "close"
    /\ tif' = "closed"
    /\ io' = Append(io, IoCall("TIFFClose", -1, TRUE, <<>>))
    /\ pc' = "returned"
    /\ exit_status' = 0
    /\ UNCHANGED <<header, width, height, content, idx, channel_data, frameBuffer,
                   convert_normals, channel_names, output_channels, channels,
                   fields, row, y>>

Next ==
    \/ AllocBuffers
    \/ ResolveUnknown
    \/ ResolveConflict
    \/ ResolveLuma
    \/ ResolveBind
    \/ BuildOutputChannels
    \/ ReadPixels
    \/ ReadPixelsThrows
    \/ OpenOutput
    \/ OpenOutputFails
    \/ SetFields
    \/ WriteScanline
    \/ CloseOutput

Spec == Init /\ [][Next]_vars

TypeOK ==
    /\ pc \in {"alloc", "resolve", "build", "read", "open", "fields", "write",
               "close", "returned", "exit"}
    /\ DOMAIN channel_names \subseteq {"R", "G", "B", "A"}
    /\ convert_normals \in BOOLEAN
    /\ exit_status \in {-1, 0, 1}

\* =================================================================== claims
TargetOf(name) == NewName(SemanticId(name))

Resolved == pc \notin {"alloc", "resolve"} /\ ~(pc = "exit" /\ exit_status = 1)

Aborted == pc = "exit" /\ exit_status = 1

IoAt(op) == { i \in 1..Len(io) : io[i].op = op }

Writes == IoAt("TIFFWriteScanline")

\* The bound output channels in the order R, G, B, A.
BoundInOrder == SelectSeq(<<"R", "G", "B", "A">>, LAMBDA c : c \in DOMAIN channel_names)

\* C1: when the resolver processes a channel whose semantic id maps to the
\* Luma target while any of R, G, B is already bound, the conversion aborts
\* with exit status 1 and the bindings are left as they were.
C1_LumaOverBoundAborts ==
    [][ ( /\ InResolver
          /\ CurrentId \in DOMAIN channel_map
          /\ channel_map[CurrentId] = "Y"
          /\ {"R", "G", "B"} \cap DOMAIN channel_names # {} )
        => ( pc' = "exit" /\ exit_status' = 1 /\ channel_names' = channel_names )
      ]_vars

\* Header positions that are a second claim on a non-broadcast output channel.
SecondClaims ==
    { j \in 1..Len(header) :
        /\ TargetOf(header[j]) \in {"R", "G", "B", "A"}
        /\ \E i \in 1..(j - 1) : TargetOf(header[i]) = TargetOf(header[j]) }

FirstSecondClaim == CHOOSE j \in SecondClaims : \A k \in SecondClaims : j <= k

\* C2: if two distinct raw names resolve to the same output channel R, G, B
\* or A, the run never gets past the second claimant: that channel finds its
\* output channel bound, the process exits with status 1, and no readPixels,
\* TIFFOpen, TIFFSetField or TIFFWriteScanline call is ever made.
C2_DuplicateClaimAbortsBeforeIo ==
    SecondClaims # {} =>
        /\ io = <<>>
        /\ tif = "null"
        /\ fields = EmptyMap
        /\ pc \in {"alloc", "resolve", "exit"}
        /\ idx <= FirstSecondClaim
        /\ (pc = "resolve" /\ idx = FirstSecondClaim)
              => TargetOf(header[idx]) \in DOMAIN channel_names
        /\ pc = "exit" => exit_status = 1

C2_Witness ==
    /\ Aborted
    /\ idx = 3
    /\ header[2] = <<"a", ".", "R">>
    /\ header[3] = <<"b", ".", "R">>

\* C3: the binding is injective except for the Luma broadcast: two different
\* output channels share a raw name only if that name's semantic id maps to
\* Luma, and then exactly R, G and B are bound to it.
C3_InjectiveExceptLuma ==
    \A c1, c2 \in DOMAIN channel_names :
        (c1 # c2 /\ channel_names[c1] = channel_names[c2]) =>
            /\ TargetOf(channel_names[c1]) = "Y"
            /\ { c \in DOMAIN channel_names : channel_names[c] = channel_names[c1] }
                  = {"R", "G", "B"}

C3_Witness ==
    /\ DOMAIN channel_names = {"R", "G", "B", "A"}
    /\ channel_names["R"] = channel_names["B"]
    /\ channel_names["A"] # channel_names["R"]

EndsWith(name, suffix) ==
    /\ Len(name) >= Len(suffix)
    /\ \A i \in 1..Len(suffix) : name[Len(name) - Len(suffix) + i] = suffix[i]

\* The name is "NX" or ends in ".NX".
HasIdNX(name) == name = <<"N", "X">> \/ EndsWith(name, <<".", "N", "X">>)

\* C4: after a resolution without fatal conflict, convert_normals is true
\* iff some header channel's semantic id is exactly NX; and the flag is never
\* reset once set.
C4_ConvertNormalsIffNX ==
    /\ [](Resolved => (convert_normals <=> \E i \in 1..Len(header) : HasIdNX(header[i])))
    /\ [][convert_normals => convert_normals']_vars

C4_Witness ==
    /\ Resolved
    /\ convert_normals
    /\ <<"N", "X">> \notin HeaderNames
    /\ <<"N", "Y">> \in HeaderNames

C4_WitnessNoNX ==
    /\ Resolved
    /\ ~convert_normals
    /\ <<"N", "Y">> \in HeaderNames

\* The source sample feeding sample c (0-based) of pixel x on scanline line.
SourceSample(line, x, c) ==
    channel_data[channel_names[BoundInOrder[c + 1]]][line * width + x]

\* C5: every sample written is value/2 + 1/2 of its source sample when
\* convert_normals is set (-1 -> 0, 0 -> 1/2, 1 -> 1), for every bound output
\* channel, and equals the source sample otherwise.
C5_RemapAppliesToEverySample ==
    \A i \in Writes :
        \A x \in 0..(width - 1) : \A c \in 0..(Len(BoundInOrder) - 1) :
            LET src == SourceSample(io[i].y, x, c)
                out == io[i].row[x * Len(BoundInOrder) + c]
            IN  IF convert_normals
                THEN /\ 2 * out = src + One
                     /\ src = -One => out = 0
                     /\ src = 0 => 2 * out = One
                     /\ src = One => out = One
                ELSE out = src

C5_Witness ==
    /\ convert_normals
    /\ "A" \in DOMAIN channel_names
    /\ \E i \in Writes : \E x \in 0..(width - 1) :
          LET c == Len(BoundInOrder) - 1
          IN  /\ BoundInOrder[c + 1] = "A"
              /\ SourceSample(io[i].y, x, c) = -One
              /\ io[i].row[x * Len(BoundInOrder) + c] = 0

OrderRank(c) == CASE c = "R" -> 1 [] c = "G" -> 2 [] c = "B" -> 3 [] c = "A" -> 4

PositionOf(c) == Cardinality({ d \in DOMAIN channel_names : OrderRank(d) <= OrderRank(c) })

\* C6: after a resolution without conflict, the output-channel list has one
\* entry per bound output channel, in the order R, G, B, A, each entry being
\* the plane of the raw channel bound to it; a lone "Y" yields three entries
\* that all read Y's plane.
C6_OutputListInFixedOrder ==
    (Resolved /\ pc # "build") =>
        /\ Len(output_channels) = Cardinality(DOMAIN channel_names)
        /\ Len(output_channels) \in 0..4
        /\ \A c \in DOMAIN channel_names :
              output_channels[PositionOf(c)] = channel_names[c]
        /\ header = << <<"Y">> >> =>
              /\ DOMAIN channel_names = {"R", "G", "B"}
              /\ output_channels = << <<"Y">>, <<"Y">>, <<"Y">> >>

C6_Witness ==
    /\ pc = "read"
    /\ DOMAIN channel_names = {"G", "A"}
    /\ Len(output_channels) = 2
    /\ SemanticId(output_channels[2]) = <<"A">>

\* C7: the tags given to the encoder: SAMPLESPERPIXEL is the number of bound
\* output channels, EXTRASAMPLES (associated alpha) is set iff A is bound,
\* PHOTOMETRIC is RGB iff exactly three non-alpha output channels are bound
\* and MINISBLACK otherwise.
C7_MetadataFromBinding ==
    fields # EmptyMap =>
        /\ fields["SAMPLESPERPIXEL"] = <<Cardinality(DOMAIN channel_names)>>
        /\ ("EXTRASAMPLES" \in DOMAIN fields) <=> ("A" \in DOMAIN channel_names)
        /\ ("EXTRASAMPLES" \in DOMAIN fields)
              => fields["EXTRASAMPLES"] = <<1, "EXTRASAMPLE_ASSOCALPHA">>
        /\ IF Cardinality(DOMAIN channel_names \ {"A"}) = 3
           THEN fields["PHOTOMETRIC"] = <<"PHOTOMETRIC_RGB">>
           ELSE fields["PHOTOMETRIC"] = <<"PHOTOMETRIC_MINISBLACK">>

C7_Witness ==
    /\ fields # EmptyMap
    /\ DOMAIN channel_names = {"R", "G", "B", "A"}
    /\ fields["PHOTOMETRIC"] = <<"PHOTOMETRIC_RGB">>
    /\ "EXTRASAMPLES" \in DOMAIN fields

InTable(name) == SemanticId(name) \in DOMAIN channel_map

\* The resolver run on a list of channels that are all in the mapping table.
RECURSIVE ResolveKnown(_, _)
ResolveKnown(list, names) ==
    IF list = <<>> THEN [names |-> names, aborted |-> FALSE]
    ELSE LET t == channel_map[SemanticId(Head(list))]
         IN  IF t \in DOMAIN names THEN [names |-> names, aborted |-> TRUE]
             ELSE ResolveKnown(Tail(list),
                     IF t = "Y"
                     THEN [k \in DOMAIN names \cup {"R", "G", "B"} |->
                              IF k \in {"R", "G", "B"} THEN Head(list) ELSE names[k]]
                     ELSE [k \in DOMAIN names \cup {t} |->
                              IF k = t THEN Head(list) ELSE names[k]])

\* Number of header channels the resolver has processed.
Processed ==
    IF pc = "alloc" THEN 0 ELSE IF Aborted THEN idx ELSE idx - 1

\* C8: a channel whose semantic id is not in the mapping table is never the
\* source of a binding, is never the channel the resolver aborts on, and the
\* bindings (and the abort) are those of the header with such channels removed.
C8_UnknownChannelSkipped ==
    /\ \A c \in DOMAIN channel_names : InTable(channel_names[c])
    /\ Aborted => InTable(header[idx])
    /\ LET r == ResolveKnown(SelectSeq(SubSeq(header, 1, Processed), InTable), EmptyMap)
       IN  /\ channel_names = r.names
           /\ Aborted <=> r.aborted

C8_Witness ==
    /\ pc = "build"
    /\ Len(header) = 3
    /\ ~InTable(header[2])
    /\ Cardinality(DOMAIN channel_names) = 2

C8_WitnessAbort ==
    /\ Aborted
    /\ idx = 3
    /\ ~InTable(header[2])

\* C9: every scanline write follows the successful TIFFOpen and the single
\* readPixels call; the k-th write is for y = k - 1; nothing is written after
\* a failed write; TIFFClose is called once, last, whenever the file was
\* opened and the run has ended (all rows written or stopped early).
C9_OrderedWritesThenClose ==
    /\ \A i \in Writes :
          /\ \E j \in 1..(i - 1) : io[j].op = "TIFFOpen" /\ io[j].ok
          /\ \E j \in 1..(i - 1) : io[j].op = "readPixels" /\ io[j].ok
          /\ io[i].y = Cardinality({ j \in Writes : j < i })
          /\ ~io[i].ok => \A k \in Writes : k <= i
    /\ Cardinality(IoAt("readPixels")) <= 1
    /\ Cardinality(IoAt("TIFFClose")) <= 1
    /\ \A i \in IoAt("TIFFClose") : i = Len(io)
    /\ ( /\ pc \in {"returned", "exit"}
         /\ \E j \in IoAt("TIFFOpen") : io[j].ok )
       => /\ Cardinality(IoAt("TIFFClose")) = 1
          /\ tif = "closed"
          /\ \/ Cardinality(Writes) = height
             \/ \E i \in Writes : ~io[i].ok

C9_Witness ==
    /\ pc = "returned"
    /\ height = 2
    /\ Cardinality(Writes) = 1
    /\ \E i \in Writes : ~io[i].ok
    /\ io[Len(io)].op = "TIFFClose"

C9_WitnessFull ==
    /\ pc = "returned"
    /\ height = 2
    /\ Cardinality(Writes) = 2
    /\ \A i \in Writes : io[i].ok

\* C10: the row given to the encoder for scanline y has exactly width * n
\* samples, and the sample at index x*n + c is the (possibly remapped) sample
\* at offset y*width + x of the plane of the c-th output channel.
C10_RowLayout ==
    \A i \in Writes :
        LET n == Len(output_channels)
        IN  /\ DOMAIN io[i].row = 0..(width * n - 1)
            /\ \A x \in 0..(width - 1) : \A c \in 0..(n - 1) :
                  io[i].row[x * n + c] =
                      LET src == channel_data[output_channels[c + 1]][io[i].y * width + x]
                      IN  IF convert_normals THEN (src + One) \div 2 ELSE src

C10_Witness ==
    /\ width = 2
    /\ Len(output_channels) >= 2
    /\ \E i \in Writes :
          /\ io[i].y = 1
          /\ io[i].row[0] # io[i].row[1]
          /\ io[i].row[1] # io[i].row[2]
          /\ \E j \in Writes : j < i /\ io[j].row # io[i].row

====
